---- MODULE Spec2Model ----
(***************************************************************************)
(* Model of the tf-format composition index: the per-group MutualSet       *)
(* (binary-doubling table), the TransformSet group manager and the bulk    *)
(* loader try_from_iter with its TopologicalSort.                          *)
(*                                                                         *)
(* na::Isometry3<f64> is modelled by the symmetric group S3, the smallest  *)
(* non-commutative group: `a * b` is Mul(a, b), `.inverse()` is Inv and    *)
(* abs_diff_eq!(a, b, epsilon) is equality.                                *)
(***************************************************************************)
EXTENDS Integers, Sequences, FiniteSets, TLC

(* ------------------------------ bounds -------------------------------- *)

NumFrames == 3        \* frame names of the calls observed with their arguments
MaxFacts == 3         \* longest fact list handed to try_from_iter
MaxInitFacts == 2     \* longest fact list a set is constructed from before inserts

Frames == 1..NumFrames

(* one more frame name where calls are not recorded, for chains of four *)
DeepFrames == 1..(NumFrames + 1)

(* three more frame names where every call adds a frame to one chain,    *)
(* for chains of six and tables of three levels                           *)
ChainFrames == 1..(NumFrames + 3)

(* --------------------------- na::Isometry3 ---------------------------- *)

Identity == <<1, 2, 3>>

Isometry ==
  {<<1, 2, 3>>, <<2, 1, 3>>, <<1, 3, 2>>, <<3, 2, 1>>, <<2, 3, 1>>, <<3, 1, 2>>}

Mul(a, b) == <<a[b[1]], a[b[2]], a[b[3]]>>

Inv(a) == CHOOSE b \in Isometry : Mul(a, b) = Identity

(* Option::None and a panic (a failed unwrap, an index out of range) in   *)
(* the place of a transform: tuples no element of Isometry equals.        *)
None == <<>>
Panic == <<0>>

(* Option::None in the place of an index *)
NoneIdx == -1

(* Result<(), InsertionError>; PanicRes is a call that panicked *)
Ok == "Ok"
InconsistentTransform == "InconsistentTransform"
DisjointCoordinates == "DisjointCoordinates"
PanicRes == "Panic"

(* ----------------------------- MutualSet ------------------------------ *)
(* lookup: IndexMap<String, Vec<Isometry3>> is a sequence of              *)
(* [coord, list] in insertion order; the code's index i is element i + 1. *)

EmptyLookup == <<>>

Coords_after_first(lookup) == {lookup[i].coord : i \in 2..Len(lookup)}

Coords(lookup) == {lookup[i].coord : i \in 1..Len(lookup)}

get_index_of_missing(lookup, c) == NoneIdx

get_index_of(lookup, c) ==
  IF \E i \in 1..Len(lookup) : lookup[i].coord = c
  THEN (CHOOSE i \in 1..Len(lookup) : lookup[i].coord = c) - 1
  ELSE NoneIdx

lookup_insert_front(lookup, c, list) ==
  IF get_index_of(lookup, c) = NoneIdx
  THEN <<[coord |-> c, list |-> list]>> \o lookup
  ELSE [lookup EXCEPT ![get_index_of(lookup, c) + 1].list = list]

(* IndexMap::insert: a new key goes last, an existing key keeps its place *)
(* and has its value replaced.                                            *)
lookup_insert(lookup, c, list) ==
  IF get_index_of(lookup, c) = NoneIdx
  THEN Append(lookup, [coord |-> c, list |-> list])
  ELSE [lookup EXCEPT ![get_index_of(lookup, c) + 1].list = list]

get_by_pow_index(lookup, at, pow) ==
  IF at >= Len(lookup) THEN None
  ELSE IF pow >= Len(lookup[at + 1].list) THEN None
  ELSE lookup[at + 1].list[pow + 1]

RECURSIVE trailing_zeros_leading(_)
trailing_zeros_leading(n) == IF n <= 1 THEN 0 ELSE 1 + trailing_zeros_leading(n \div 2)

RECURSIVE trailing_zeros(_)
trailing_zeros(n) == IF n % 2 = 1 THEN 0 ELSE 1 + trailing_zeros(n \div 2)

RECURSIVE Pow2(_)
Pow2(n) == IF n = 0 THEN 1 ELSE 2 * Pow2(n - 1)

(* the while loop of get_by_range *)
RECURSIVE range_walk(_, _, _, _)
range_walk(lookup, curr, diff, prod_tf) ==
  IF diff = 0 THEN prod_tf
  ELSE LET pow == trailing_zeros(diff)
           step == Pow2(pow)
           tf == get_by_pow_index(lookup, curr, pow)
       IN IF tf = None THEN Panic
          ELSE range_walk(lookup, curr + step, diff - step, Mul(prod_tf, tf))

(* the reads get_by_pow_index(curr, pow) of the while loop, in order *)
RECURSIVE range_reads(_, _)
range_reads(curr, diff) ==
  IF diff = 0 THEN <<>>
  ELSE LET pow == trailing_zeros(diff)
           step == Pow2(pow)
       IN <<[at |-> curr, pow |-> pow]>> \o range_reads(curr + step, diff - step)

get_by_range_never_inverted(lookup, start, end) ==
  LET min == IF start <= end THEN start ELSE end
      max == IF start <= end THEN end ELSE start
  IN IF max >= Len(lookup) THEN None
     ELSE range_walk(lookup, min, max - min, Identity)

get_by_range_short(lookup, start, end) ==
  LET min == IF start <= end THEN start ELSE end
      max == IF start <= end THEN end ELSE start
      inverse == ~(start <= end)
  IN IF max >= Len(lookup) - 1 THEN None
     ELSE LET prod_tf == range_walk(lookup, min, max - min, Identity)
          IN IF prod_tf = Panic THEN Panic
             ELSE IF inverse THEN Inv(prod_tf) ELSE prod_tf

get_by_range(lookup, start, end) ==
  LET min == IF start <= end THEN start ELSE end
      max == IF start <= end THEN end ELSE start
      inverse == ~(start <= end)
  IN IF max >= Len(lookup) THEN None
     ELSE LET prod_tf == range_walk(lookup, min, max - min, Identity)
          IN IF prod_tf = Panic THEN Panic
             ELSE IF inverse THEN Inv(prod_tf) ELSE prod_tf

MutualSet_get_distinct_only(lookup, src, dst) ==
  LET src_idx == get_index_of(lookup, src)
      dst_idx == get_index_of(lookup, dst)
  IN IF src_idx = NoneIdx \/ dst_idx = NoneIdx \/ src_idx = dst_idx THEN None
     ELSE get_by_range(lookup, src_idx, dst_idx)

MutualSet_get(lookup, src, dst) ==
  LET src_idx == get_index_of(lookup, src)
      dst_idx == get_index_of(lookup, dst)
  IN IF src_idx = NoneIdx \/ dst_idx = NoneIdx THEN None
     ELSE get_by_range(lookup, src_idx, dst_idx)

(* latter_tf = tf_list2[nth] * latter_tf *)
next_latter_tf_swapped(tf2, latter_tf) == Mul(latter_tf, tf2)

next_latter_tf(tf2, latter_tf) == Mul(tf2, latter_tf)

push_loop_once(lookup, last_idx, nth, latter_tf) ==
  [lookup |-> [lookup EXCEPT ![last_idx].list = Append(@, latter_tf)], res |-> Ok]

RECURSIVE push_loop_early_break(_, _, _, _)
push_loop_early_break(lookup, last_idx, nth, latter_tf) ==
  LET offset == Pow2(nth)
      idx == last_idx - offset
  IN IF idx < 0 \/ idx >= Len(lookup) THEN [lookup |-> lookup, res |-> PanicRes]
     ELSE LET pushed ==
                [lookup EXCEPT ![idx + 1].list = Append(@, latter_tf)]
              idx2 == idx - offset
          IN IF idx2 <= 0 THEN [lookup |-> pushed, res |-> Ok]
             ELSE IF nth >= Len(pushed[idx2 + 1].list)
             THEN [lookup |-> pushed, res |-> PanicRes]
             ELSE push_loop_early_break(pushed, last_idx, nth + 1,
                            next_latter_tf(pushed[idx2 + 1].list[nth + 1], latter_tf))

RECURSIVE push_loop_stale_tf(_, _, _, _)
push_loop_stale_tf(lookup, last_idx, nth, latter_tf) ==
  LET offset == Pow2(nth)
      idx == last_idx - offset
  IN IF idx < 0 \/ idx >= Len(lookup) THEN [lookup |-> lookup, res |-> PanicRes]
     ELSE LET pushed ==
                [lookup EXCEPT ![idx + 1].list = Append(@, latter_tf)]
              idx2 == idx - offset
          IN IF idx2 < 0 THEN [lookup |-> pushed, res |-> Ok]
             ELSE IF nth >= Len(pushed[idx2 + 1].list)
             THEN [lookup |-> pushed, res |-> PanicRes]
             ELSE push_loop_stale_tf(pushed, last_idx, nth + 1, latter_tf)

(* the `for nth in 0..usize::BITS` loop of MutualSet::insert *)
RECURSIVE push_loop(_, _, _, _)
push_loop(lookup, last_idx, nth, latter_tf) ==
  LET offset == Pow2(nth)
      idx == last_idx - offset
  IN IF idx < 0 \/ idx >= Len(lookup) THEN [lookup |-> lookup, res |-> PanicRes]
     ELSE LET pushed ==
                [lookup EXCEPT ![idx + 1].list = Append(@, latter_tf)]
              idx2 == idx - offset
          IN IF idx2 < 0 THEN [lookup |-> pushed, res |-> Ok]
             ELSE IF nth >= Len(pushed[idx2 + 1].list)
             THEN [lookup |-> pushed, res |-> PanicRes]
             ELSE push_loop(pushed, last_idx, nth + 1,
                            next_latter_tf(pushed[idx2 + 1].list[nth + 1], latter_tf))

(* lines 67-90 of MutualSet::insert: append to_base after the last index *)
append_coord_direct(lookup, to_base, from_idx, tf) ==
  LET inserted == lookup_insert(lookup, to_base, <<>>)
      last_idx == Len(inserted) - 1
      former_tf == get_by_range(inserted, from_idx, last_idx - 1)
  IN IF former_tf = None \/ former_tf = Panic
     THEN [lookup |-> inserted, res |-> PanicRes]
     ELSE push_loop(inserted, last_idx, 0, tf)

append_coord(lookup, to_base, from_idx, tf) ==
  LET inserted == lookup_insert(lookup, to_base, <<>>)
      last_idx == Len(inserted) - 1
      former_tf == get_by_range(inserted, from_idx, last_idx - 1)
  IN IF former_tf = None \/ former_tf = Panic
     THEN [lookup |-> inserted, res |-> PanicRes]
     ELSE push_loop(inserted, last_idx, 0, Mul(Inv(former_tf), tf))

(* (None, Some(dst_idx)) => (src, dst_idx, tf.inverse()): the transform   *)
(* from the known dst to the new src                                      *)
tf_from_dst_not_inverted(tf) == tf

tf_from_dst(tf) == Inv(tf)

(* the (Some(src_idx), Some(dst_idx)) arm of MutualSet::insert *)
check_known_overwrite(lookup, src_idx, dst_idx, tf) ==
  LET expect == get_by_range(lookup, src_idx, dst_idx)
  IN IF expect = None \/ expect = Panic
     THEN [lookup |-> lookup, res |-> PanicRes]
     ELSE IF tf = expect
     THEN [lookup |-> lookup, res |-> Ok]
     ELSE [lookup |-> [lookup EXCEPT ![src_idx + 1].list = Append(@, tf)],
           res |-> InconsistentTransform]

check_known_accept(lookup, src_idx, dst_idx, tf) ==
  LET expect == get_by_range(lookup, src_idx, dst_idx)
  IN IF expect = None \/ expect = Panic
     THEN [lookup |-> lookup, res |-> PanicRes]
     ELSE [lookup |-> lookup, res |-> Ok]

check_known(lookup, src_idx, dst_idx, tf) ==
  LET expect == get_by_range(lookup, src_idx, dst_idx)
  IN IF expect = None \/ expect = Panic
     THEN [lookup |-> lookup, res |-> PanicRes]
     ELSE IF tf = expect
     THEN [lookup |-> lookup, res |-> Ok]
     ELSE [lookup |-> lookup, res |-> InconsistentTransform]

(* the arm of `match (src_idx, dst_idx)` that insert(src, dst, _) takes *)
insert_arm(lookup, src, dst) ==
  LET src_idx == get_index_of(lookup, src)
      dst_idx == get_index_of(lookup, dst)
  IN CASE src_idx = NoneIdx /\ dst_idx = NoneIdx ->
            IF Len(lookup) = 0 THEN "create" ELSE "disjoint"
       [] src_idx = NoneIdx /\ dst_idx # NoneIdx -> "append_src"
       [] src_idx # NoneIdx /\ dst_idx = NoneIdx -> "append_dst"
       [] OTHER -> "both_known"

MutualSet_insert(lookup, src, dst, tf) ==
  LET src_idx == get_index_of(lookup, src)
      dst_idx == get_index_of(lookup, dst)
  IN CASE src_idx = NoneIdx /\ dst_idx = NoneIdx ->
            IF Len(lookup) = 0
            THEN [lookup |-> lookup_insert(lookup_insert(lookup, src, <<tf>>),
                                           dst, <<>>),
                  res |-> Ok]
            ELSE [lookup |-> lookup, res |-> DisjointCoordinates]
       [] src_idx = NoneIdx /\ dst_idx # NoneIdx ->
            append_coord(lookup, src, dst_idx, tf_from_dst(tf))
       [] src_idx # NoneIdx /\ dst_idx = NoneIdx ->
            append_coord(lookup, dst, src_idx, tf)
       [] OTHER -> check_known(lookup, src_idx, dst_idx, tf)

(* (0..).find(|pow| idx + (1 << pow) >= lookup.len()) *)
max_pow(lookup, idx) ==
  CHOOSE pow \in 0..Len(lookup) :
    /\ idx + Pow2(pow) >= Len(lookup)
    /\ \A q \in 0..(pow - 1) : idx + Pow2(q) < Len(lookup)

(* assert_consistency: Ok when every assert! passes, PanicRes when one    *)
(* fails or an index is out of range                                      *)
assert_consistency(lookup) ==
  IF \A idx \in 0..(Len(lookup) - 1) :
       \A pow \in 1..(max_pow(lookup, idx) - 1) :
         LET offset == Pow2(pow - 1)
             list1 == lookup[idx + 1].list
         IN /\ idx + offset * 2 < Len(lookup)
            /\ pow < Len(list1)
            /\ pow - 1 < Len(lookup[idx + offset + 1].list)
            /\ list1[pow + 1] = Mul(list1[pow], lookup[idx + offset + 1].list[pow])
  THEN Ok
  ELSE PanicRes

coord_iter(lookup) == [i \in 1..Len(lookup) |-> lookup[i].coord]

(* let tf = other.get(&common_coord, coord) *)
merge_tf_reversed(other, common_coord, coord) ==
  MutualSet_get(other, coord, common_coord)

merge_tf(other, common_coord, coord) ==
  MutualSet_get(other, common_coord, coord)

(* the `for coord in other.lookup.keys()` loop of MutualSet::merge *)
RECURSIVE merge_loop_short(_, _, _, _)
merge_loop_short(self, other, common_coord, i) ==
  IF i >= Len(other) THEN [lookup |-> self, res |-> Ok]
  ELSE LET coord == other[i].coord
           tf == merge_tf(other, common_coord, coord)
       IN IF tf = None \/ tf = Panic THEN [lookup |-> self, res |-> PanicRes]
          ELSE LET r == MutualSet_insert(self, common_coord, coord, tf)
               IN IF r.res # Ok THEN [lookup |-> r.lookup, res |-> PanicRes]
                  ELSE merge_loop_short(r.lookup, other, common_coord, i + 1)

RECURSIVE merge_loop(_, _, _, _)
merge_loop(self, other, common_coord, i) ==
  IF i > Len(other) THEN [lookup |-> self, res |-> Ok]
  ELSE LET coord == other[i].coord
           tf == merge_tf(other, common_coord, coord)
       IN IF tf = None \/ tf = Panic THEN [lookup |-> self, res |-> PanicRes]
          ELSE LET r == MutualSet_insert(self, common_coord, coord, tf)
               IN IF r.res # Ok THEN [lookup |-> r.lookup, res |-> PanicRes]
                  ELSE merge_loop(r.lookup, other, common_coord, i + 1)

(* MutualSet::merge: the set of results, one per coordinate the HashSet   *)
(* intersection may yield first; "Err" when the two sets share none.      *)
MutualSet_merge(self, other) ==
  LET common == Coords(self) \cap Coords(other)
  IN IF common = {} THEN {[lookup |-> self, res |-> "Err"]}
     ELSE {merge_loop(self, other, common_coord, 1) : common_coord \in common}

(* ---------------------------- TransformSet ---------------------------- *)
(* ts = [mid, coord_to_mid, mid_to_set]; the two HashMaps are functions   *)
(* whose domain is the key set.                                           *)

EmptyMap == [x \in {} |-> 0]

Default ==
  [mid |-> 0, coord_to_mid |-> EmptyMap, mid_to_set |-> EmptyMap]

map_insert(m, k, v) == [x \in DOMAIN m \cup {k} |-> IF x = k THEN v ELSE m[x]]

map_remove_kept(m, k) == m

map_remove(m, k) == [x \in DOMAIN m \ {k} |-> m[x]]

contains_coord(ts, coord) == coord \in DOMAIN ts.coord_to_mid

TransformSet_get(ts, src, dst) ==
  IF src \notin DOMAIN ts.coord_to_mid THEN None
  ELSE IF dst \notin DOMAIN ts.coord_to_mid THEN None
  ELSE LET src_mid == ts.coord_to_mid[src]
           dst_mid == ts.coord_to_mid[dst]
       IN IF src_mid # dst_mid THEN None
          ELSE IF src_mid \notin DOMAIN ts.mid_to_set THEN Panic
          ELSE MutualSet_get(ts.mid_to_set[src_mid], src, dst)

next_mid_stuck(ts) == [out |-> ts.mid, mid |-> ts.mid]

(* next_mid: the id handed out and the counter after it *)
next_mid(ts) == [out |-> ts.mid, mid |-> ts.mid + 1]

(* the dispatch case of TransformSet::insert *)
Branch(ts, src, dst) ==
  LET known(c) == c \in DOMAIN ts.coord_to_mid
  IN CASE ~known(src) /\ ~known(dst) -> "create"
       [] ~known(src) /\ known(dst) -> "append_src"
       [] known(src) /\ ~known(dst) -> "append_dst"
       [] ts.coord_to_mid[src] # ts.coord_to_mid[dst] -> "merge"
       [] OTHER -> "same"

(* TransformSet::insert: the set of [ts, res] the call may end in *)
TransformSet_insert(ts, src, dst, tf) ==
  LET branch == Branch(ts, src, dst)
      panicked == [ts |-> ts, res |-> PanicRes]
  IN CASE branch = "create" ->
            LET nm == next_mid(ts)
                r == MutualSet_insert(EmptyLookup, src, dst, tf)
            IN IF r.res # Ok
               THEN {[ts |-> [ts EXCEPT !.mid = nm.mid], res |-> r.res]}
               ELSE {[ts |-> [mid |-> nm.mid,
                              coord_to_mid |->
                                map_insert(map_insert(ts.coord_to_mid, src, nm.out),
                                           dst, nm.out),
                              mid_to_set |-> map_insert(ts.mid_to_set, nm.out, r.lookup)],
                      res |-> Ok]}
       [] branch = "append_src" ->
            LET dst_mid == ts.coord_to_mid[dst]
            IN IF dst_mid \notin DOMAIN ts.mid_to_set THEN {panicked}
               ELSE LET r == MutualSet_insert(ts.mid_to_set[dst_mid], src, dst, tf)
                    IN {[ts |-> [ts EXCEPT
                                   !.coord_to_mid = map_insert(@, src, dst_mid),
                                   !.mid_to_set[dst_mid] = r.lookup],
                         res |-> r.res]}
       [] branch = "append_dst" ->
            LET src_mid == ts.coord_to_mid[src]
            IN IF src_mid \notin DOMAIN ts.mid_to_set THEN {panicked}
               ELSE LET r == MutualSet_insert(ts.mid_to_set[src_mid], src, dst, tf)
                    IN {[ts |-> [ts EXCEPT
                                   !.coord_to_mid = map_insert(@, dst, src_mid),
                                   !.mid_to_set[src_mid] = r.lookup],
                         res |-> r.res]}
       [] branch = "merge" ->
            LET src_mid == ts.coord_to_mid[src]
                dst_mid == ts.coord_to_mid[dst]
                nm == next_mid(ts)
            IN IF src_mid \notin DOMAIN ts.mid_to_set
                  \/ dst_mid \notin DOMAIN ts.mid_to_set
               THEN {panicked}
               ELSE
                 LET src_set == ts.mid_to_set[src_mid]
                     dst_set == ts.mid_to_set[dst_mid]
                     removed == map_remove(map_remove(ts.mid_to_set, src_mid), dst_mid)
                     moved == Coords(src_set) \cup Coords(dst_set)
                     c2m == [c \in DOMAIN ts.coord_to_mid |->
                               IF c \in moved THEN nm.out ELSE ts.coord_to_mid[c]]
                     r == MutualSet_insert(src_set, src, dst, tf)
                 IN IF ~(moved \subseteq DOMAIN ts.coord_to_mid) \/ r.res # Ok
                    THEN {panicked}
                    ELSE {IF m.res # Ok THEN panicked
                          ELSE [ts |-> [mid |-> nm.mid,
                                        coord_to_mid |-> c2m,
                                        mid_to_set |-> map_insert(removed, nm.out, m.lookup)],
                                res |-> Ok]
                          : m \in MutualSet_merge(r.lookup, dst_set)}
       [] OTHER ->
            LET src_mid == ts.coord_to_mid[src]
            IN IF src_mid \notin DOMAIN ts.mid_to_set THEN {panicked}
               ELSE LET r == MutualSet_insert(ts.mid_to_set[src_mid], src, dst, tf)
                    IN {[ts |-> [ts EXCEPT !.mid_to_set[src_mid] = r.lookup],
                         res |-> r.res]}

(* -------------------------- TopologicalSort --------------------------- *)
(* topo = [nodes, edges]: nodes is an IndexSet (a sequence without        *)
(* repetition, in insertion order); edges maps a node to the IndexSet of  *)
(* its neighbours.                                                        *)

TopologicalSort_new == [nodes |-> <<>>, edges |-> [x \in {} |-> <<>>]]

InSeq(seq, x) == \E i \in 1..Len(seq) : seq[i] = x

indexset_insert(seq, x) == IF InSeq(seq, x) THEN seq ELSE Append(seq, x)

(* edges.entry(a).or_default().insert(b) *)
edges_entry_insert(edges, a, b) ==
  map_insert(edges, a,
             indexset_insert(IF a \in DOMAIN edges THEN edges[a] ELSE <<>>, b))

insert_edge(topo, a, b) ==
  IF a = b
  THEN [topo EXCEPT !.nodes = indexset_insert(@, a)]
  ELSE [nodes |-> indexset_insert(indexset_insert(topo.nodes, a), b),
        edges |-> edges_entry_insert(edges_entry_insert(topo.edges, a, b), b, a)]

take_fronts_reversed(edges, n) ==
  IF n \in DOMAIN edges
  THEN [i \in 1..Len(edges[n]) |-> <<n, edges[n][Len(edges[n]) + 1 - i]>>]
  ELSE <<>>

(* edges.remove(&n).into_iter().flatten().map(|next| (n, next)) *)
take_fronts(edges, n) ==
  IF n \in DOMAIN edges
  THEN [i \in 1..Len(edges[n]) |-> <<n, edges[n][i]>>]
  ELSE <<>>

RECURSIVE bfs_unchecked(_, _, _, _)
bfs_unchecked(fronts, visited, edges, seq) ==
  IF Len(fronts) = 0 THEN [visited |-> visited, edges |-> edges, seq |-> seq]
  ELSE LET prev == Head(fronts)[1]
           curr == Head(fronts)[2]
       IN bfs_unchecked(Tail(fronts) \o take_fronts(edges, curr),
                        visited \cup {curr},
                        map_remove(edges, curr),
                        Append(seq, <<prev, curr>>))

(* the `while let Some((prev, curr)) = fronts.pop_front()` loop of sort *)
RECURSIVE bfs(_, _, _, _)
bfs(fronts, visited, edges, seq) ==
  IF Len(fronts) = 0 THEN [visited |-> visited, edges |-> edges, seq |-> seq]
  ELSE LET prev == Head(fronts)[1]
           curr == Head(fronts)[2]
       IN IF curr \in visited
          THEN bfs(Tail(fronts), visited, edges, seq)
          ELSE bfs(Tail(fronts) \o take_fronts(edges, curr),
                   visited \cup {curr},
                   map_remove(edges, curr),
                   Append(seq, <<prev, curr>>))

(* the filter_map over nodes of sort, from node i on *)
RECURSIVE sort_from(_, _, _, _, _)
sort_from(nodes, i, visited, edges, comps) ==
  IF i > Len(nodes) THEN comps
  ELSE LET start == nodes[i]
       IN IF start \in visited
          THEN sort_from(nodes, i + 1, visited, edges, comps)
          ELSE LET b == bfs(take_fronts(edges, start), visited \cup {start},
                            map_remove(edges, start), <<>>)
               IN sort_from(nodes, i + 1, b.visited, b.edges,
                            Append(comps, [start |-> start, seq |-> b.seq]))

sort(topo) == sort_from(topo.nodes, 1, {}, topo.edges, <<>>)

(* ---------------------- TransformSet::try_from_iter ------------------- *)
(* A fact is a CoordTransform [src, dst, tf].                             *)

(* adj.entry(a).or_default().insert(b, tf) *)
adj_insert(adj, a, b, tf) ==
  map_insert(adj, a, map_insert(IF a \in DOMAIN adj THEN adj[a] ELSE [x \in {} |-> Identity], b, tf))

(* abs_diff_eq!(tf, id) of a fact with src == dst *)
self_loop_ok_any(tf) == TRUE

self_loop_ok(tf) == tf = Identity

(* the `for trans in iter` loop: [topo, adj, res] *)
RECURSIVE read_facts(_, _, _, _)
read_facts(facts, i, topo, adj) ==
  IF i > Len(facts) THEN [topo |-> topo, adj |-> adj, res |-> Ok]
  ELSE LET src == facts[i].src
           dst == facts[i].dst
           tf == facts[i].tf
       IN IF src = dst
          THEN IF ~self_loop_ok(tf)
               THEN [topo |-> topo, adj |-> adj, res |-> InconsistentTransform]
               ELSE read_facts(facts, i + 1, insert_edge(topo, src, dst), adj)
          ELSE read_facts(facts, i + 1, insert_edge(topo, src, dst),
                          adj_insert(adj_insert(adj, dst, src, Inv(tf)), src, dst, tf))

RECURSIVE feed_seq_from_child(_, _, _, _, _)
feed_seq_from_child(seq, i, adj, lookup, arms) ==
  IF i > Len(seq) THEN [lookup |-> lookup, res |-> Ok, arms |-> arms]
  ELSE LET src == seq[i][1]
           dst == seq[i][2]
       IN IF src \notin DOMAIN adj \/ dst \notin DOMAIN adj[src]
          THEN [lookup |-> lookup, res |-> PanicRes, arms |-> Append(arms, "index")]
          ELSE LET r == MutualSet_insert(lookup, dst, src, Inv(adj[src][dst]))
                   taken == Append(arms, insert_arm(lookup, dst, src))
               IN IF r.res # Ok
                  THEN [lookup |-> r.lookup, res |-> PanicRes, arms |-> taken]
                  ELSE feed_seq_from_child(seq, i + 1, adj, r.lookup, taken)

(* the `for (src, dst) in comp.seq` loop: [lookup, res, arms], arms being *)
(* the arm of MutualSet::insert each fed edge took so far, "index" where  *)
(* adj[&src][&dst] has no entry                                           *)
RECURSIVE feed_seq(_, _, _, _, _)
feed_seq(seq, i, adj, lookup, arms) ==
  IF i > Len(seq) THEN [lookup |-> lookup, res |-> Ok, arms |-> arms]
  ELSE LET src == seq[i][1]
           dst == seq[i][2]
       IN IF src \notin DOMAIN adj \/ dst \notin DOMAIN adj[src]
          THEN [lookup |-> lookup, res |-> PanicRes, arms |-> Append(arms, "index")]
          ELSE LET r == MutualSet_insert(lookup, src, dst, adj[src][dst])
                   taken == Append(arms, insert_arm(lookup, src, dst))
               IN IF r.res # Ok
                  THEN [lookup |-> r.lookup, res |-> PanicRes, arms |-> taken]
                  ELSE feed_seq(seq, i + 1, adj, r.lookup, taken)

(* try_from_iter: [ts, res]; ts is the new set when res is Ok *)
try_from_iter(facts) ==
  LET read == read_facts(facts, 1, TopologicalSort_new, EmptyMap)
      comps == sort(read.topo)
      fed == [k \in 1..Len(comps) |-> feed_seq(comps[k].seq, 1, read.adj, EmptyLookup, <<>>)]
      m2s == [m \in 0..(Len(comps) - 1) |-> fed[m + 1].lookup]
      c2m == [c \in UNION {Coords(m2s[m]) : m \in DOMAIN m2s} |->
                CHOOSE m \in DOMAIN m2s : c \in Coords(m2s[m])]
  IN IF read.res # Ok THEN [ts |-> Default, res |-> read.res]
     ELSE IF \E k \in 1..Len(comps) : fed[k].res # Ok
     THEN [ts |-> Default, res |-> PanicRes]
     ELSE [ts |-> [mid |-> Len(comps), coord_to_mid |-> c2m, mid_to_set |-> m2s],
           res |-> Ok]

(* ------------- From<TransformSet> for SerializedTransformSet ---------- *)

(* lookup.iter().tuple_windows().map(..): one CoordTransform per pair of  *)
(* neighbours, with tf_list[0] of the first; tf is Panic where the index  *)
(* is out of range                                                        *)
window_tf_last(lookup, p) ==
  IF Len(lookup[p].list) = 0 THEN Panic ELSE lookup[p].list[Len(lookup[p].list)]

window_tf(lookup, p) ==
  IF Len(lookup[p].list) = 0 THEN Panic ELSE lookup[p].list[1]

ledger_facts(lookup) ==
  [p \in 1..(Len(lookup) - 1) |->
     [src |-> lookup[p].coord, dst |-> lookup[p + 1].coord,
      tf |-> window_tf(lookup, p)]]

(* the orders in which HashMap::values() may yield the ledgers *)
values_orders(m2s) ==
  {o \in [1..Cardinality(DOMAIN m2s) -> DOMAIN m2s] :
     \A i \in DOMAIN o, j \in DOMAIN o : o[i] = o[j] => i = j}

RECURSIVE flat_map(_, _, _)
flat_map(m2s, o, i) ==
  IF i > Len(o) THEN <<>>
  ELSE ledger_facts(m2s[o[i]]) \o flat_map(m2s, o, i + 1)

(* SerializedTransformSet::from(tset): the set of [facts, res], one per   *)
(* order of the ledgers; res is PanicRes when tf_list[0] does not exist   *)
to_facts(ts) ==
  {LET facts == flat_map(ts.mid_to_set, o, 1)
   IN IF \E i \in 1..Len(facts) : facts[i].tf = Panic
      THEN [facts |-> <<>>, res |-> PanicRes]
      ELSE [facts |-> facts, res |-> Ok]
   : o \in values_orders(ts.mid_to_set)}

(* ------------------------------- state -------------------------------- *)

VARIABLES
  mid,            \* TransformSet.mid
  coord_to_mid,   \* TransformSet.coord_to_mid
  mid_to_set,     \* TransformSet.mid_to_set
  last            \* the caller: the call it has just made, the set as it
                  \* was before that call and the Result it holds

vars == <<mid, coord_to_mid, mid_to_set, last>>

tset == [mid |-> mid, coord_to_mid |-> coord_to_mid, mid_to_set |-> mid_to_set]

Fact == [src : Frames, dst : Frames, tf : Isometry]

FactLists(n) == UNION {[1..k -> Fact] : k \in 0..n}

(* a chain over the first NumFrames frame names and a chain of two more *)
MergeFrames == 1..(NumFrames + 2)

two_chains(t) ==
  [i \in 1..(NumFrames - 1) |-> [src |-> i, dst |-> i + 1, tf |-> t[i]]]
    \o <<[src |-> NumFrames + 1, dst |-> NumFrames + 2, tf |-> t[NumFrames]]>>

(* TransformSet::new() *)
InitNew ==
  /\ mid = Default.mid
  /\ coord_to_mid = Default.coord_to_mid
  /\ mid_to_set = Default.mid_to_set
  /\ last = [op |-> "new"]

(* TransformSet::try_from_iter(facts) that returned Ok *)
InitBuilt ==
  \E facts \in FactLists(MaxInitFacts) :
    LET b == try_from_iter(facts)
    IN /\ b.res = Ok
       /\ mid = b.ts.mid
       /\ coord_to_mid = b.ts.coord_to_mid
       /\ mid_to_set = b.ts.mid_to_set
       /\ last = [op |-> "try_from_iter"]

(* TransformSet::try_from_iter of the facts of two chains *)
InitTwoChains ==
  \E t \in [1..NumFrames -> Isometry] :
    LET b == try_from_iter(two_chains(t))
    IN /\ b.res = Ok
       /\ mid = b.ts.mid
       /\ coord_to_mid = b.ts.coord_to_mid
       /\ mid_to_set = b.ts.mid_to_set
       /\ last = [op |-> "try_from_iter"]

(* let mut topo_sort = TopologicalSort::new(), the caller keeping the     *)
(* edges it inserts, in order                                             *)
InitTopo ==
  /\ mid = Default.mid
  /\ coord_to_mid = Default.coord_to_mid
  /\ mid_to_set = Default.mid_to_set
  /\ last = [op |-> "topo", topo |-> TopologicalSort_new, log |-> <<>>]

(* topo_sort.insert_edge(a, b) *)
InsertEdge(a, b) ==
  /\ last.op = "topo"
  /\ Len(last.log) < MaxFacts
  /\ last' = [op |-> "topo", topo |-> insert_edge(last.topo, a, b),
              log |-> Append(last.log, <<a, b>>)]
  /\ UNCHANGED <<mid, coord_to_mid, mid_to_set>>

(* let comps = topo_sort.sort(), which consumes the sorter *)
Sort ==
  /\ last.op = "topo"
  /\ last' = [op |-> "sorted", comps |-> sort(last.topo), log |-> last.log]
  /\ UNCHANGED <<mid, coord_to_mid, mid_to_set>>

(* let res = set.insert(src, dst, tf), the caller holding no Result *)
Insert(src, dst, tf) ==
  /\ last.op # "insert"
  /\ \E r \in TransformSet_insert(tset, src, dst, tf) :
       /\ mid' = r.ts.mid
       /\ coord_to_mid' = r.ts.coord_to_mid
       /\ mid_to_set' = r.ts.mid_to_set
       /\ last' = [op |-> "insert", src |-> src, dst |-> dst, tf |-> tf,
                   before |-> tset, res |-> r.res]

(* the caller drops the Result it holds *)
Continue ==
  /\ last.op = "insert"
  /\ last' = [op |-> "idle"]
  /\ UNCHANGED <<mid, coord_to_mid, mid_to_set>>

(* set.insert(src, dst, tf) with the Result dropped at once *)
InsertQuiet(src, dst, tf) ==
  \E r \in TransformSet_insert(tset, src, dst, tf) :
    /\ mid' = r.ts.mid
    /\ coord_to_mid' = r.ts.coord_to_mid
    /\ mid_to_set' = r.ts.mid_to_set
    /\ last' = [op |-> "idle"]

(* set.insert(src, dst, tf), the caller keeping the frame pairs of the    *)
(* calls that returned Ok                                                 *)
InsertLogged(src, dst, tf) ==
  /\ last.op \in {"new", "log"}
  /\ \E r \in TransformSet_insert(tset, src, dst, tf) :
       /\ mid' = r.ts.mid
       /\ coord_to_mid' = r.ts.coord_to_mid
       /\ mid_to_set' = r.ts.mid_to_set
       /\ last' = [op |-> "log",
                   accepted |-> (IF last.op = "log" THEN last.accepted ELSE {})
                                  \cup (IF r.res = Ok THEN {{src, dst}} ELSE {})]

(* let set = TransformSet::try_from_iter(facts): on Err no set exists *)
Build(facts) ==
  LET b == try_from_iter(facts)
  IN /\ last.op = "new"
     /\ mid' = b.ts.mid
     /\ coord_to_mid' = b.ts.coord_to_mid
     /\ mid_to_set' = b.ts.mid_to_set
     /\ last' = [op |-> "try_from_iter", facts |-> facts, res |-> b.res]

(* inserts into a new set, each call observed with its Result *)
Next ==
  \/ \E src \in Frames, dst \in Frames, tf \in Isometry : Insert(src, dst, tf)
  \/ Continue

Spec == InitNew /\ [][Next]_vars

(* inserts into a new or a built set, the caller holding each Result *)
SpecCalls == (InitNew \/ InitBuilt) /\ [][Next]_vars

(* inserts into a new or a built set *)
NextQuiet ==
  \E src \in Frames, dst \in Frames, tf \in Isometry : InsertQuiet(src, dst, tf)

SpecQuiet == (InitNew \/ InitBuilt) /\ [][NextQuiet]_vars

(* inserts into a new set over one more frame name *)
NextDeep ==
  \E src \in DeepFrames, dst \in DeepFrames, tf \in Isometry :
    InsertQuiet(src, dst, tf)

SpecDeep == InitNew /\ [][NextDeep]_vars

(* inserts into a new set, the accepted frame pairs kept *)
NextLog ==
  \E src \in Frames, dst \in Frames, tf \in Isometry : InsertLogged(src, dst, tf)

SpecLog == InitNew /\ [][NextLog]_vars

(* inserts that start one group and then add one new frame each, as src  *)
(* or as dst, next to any frame of the chain; the frame names are taken   *)
(* in the order of their first use                                        *)
NextChain ==
  \E src \in ChainFrames, dst \in ChainFrames, tf \in Isometry :
    /\ LET fresh == Cardinality(DOMAIN coord_to_mid) + 1
       IN \/ mid = 0 /\ src = 1 /\ dst \in {1, 2}
          \/ Branch(tset, src, dst) = "append_src" /\ src = fresh
          \/ Branch(tset, src, dst) = "append_dst" /\ dst = fresh
    /\ InsertQuiet(src, dst, tf)

SpecChain == InitNew /\ [][NextChain]_vars

(* an insert that joins the two chains of a built set, at any two frames *)
NextMerge ==
  \E src \in MergeFrames, dst \in MergeFrames, tf \in Isometry :
    /\ Branch(tset, src, dst) = "merge"
    /\ InsertQuiet(src, dst, tf)

SpecMerge == InitTwoChains /\ [][NextMerge]_vars

(* a sorter fed up to MaxFacts edges over NumFrames + 1 nodes, then       *)
(* sorted                                                                 *)
NextTopo ==
  \/ \E a \in DeepFrames, b \in DeepFrames : InsertEdge(a, b)
  \/ Sort

SpecTopo == InitTopo /\ [][NextTopo]_vars

(* the bulk build, observed with its input *)
NextBuild == last.op = "new" /\ \E facts \in FactLists(MaxFacts) : Build(facts)

SpecBuild == InitNew /\ [][NextBuild]_vars

(* ------------------------------ queries ------------------------------- *)

get(src, dst) == TransformSet_get(tset, src, dst)

IsTransform(x) == x \in Isometry

known(c) == contains_coord(tset, c)

same_group(a, b) == known(a) /\ known(b) /\ coord_to_mid[a] = coord_to_mid[b]

(* the ledger of a known frame and the frame's position in it *)
ledger_of(c) == mid_to_set[coord_to_mid[c]]

position(c) == get_index_of(ledger_of(c), c)

(* the same queries on the set as it was before the call held in last *)
get_before(src, dst) == TransformSet_get(last.before, src, dst)

same_group_before(a, b) ==
  /\ contains_coord(last.before, a)
  /\ contains_coord(last.before, b)
  /\ last.before.coord_to_mid[a] = last.before.coord_to_mid[b]

position_before(c) ==
  get_index_of(last.before.mid_to_set[last.before.coord_to_mid[c]], c)

inserted == last.op = "insert"

inserted_ok == inserted /\ last.res = Ok

branch == Branch(last.before, last.src, last.dst)

some_insert_done == mid > 0 /\ last.op = "idle"

(* ------------------------------- claims ------------------------------- *)

(* C1: right after insert(src, dst, T) returned Ok with src # dst,        *)
(* get(src, dst) is T, whichever of the four dispatch cases was taken.    *)
C1_GetAfterInsert ==
  (inserted_ok /\ last.src # last.dst) => get(last.src, last.dst) = last.tf

(* C1 witness: only dst was known, so the stored edge is the inverted     *)
(* transform, T is not its own inverse, dst is not the last frame of its  *)
(* chain and the chain's steps do not commute.                            *)
C1_Witness ==
  /\ inserted_ok
  /\ branch = "append_src"
  /\ last.tf # Inv(last.tf)
  /\ Len(ledger_of(last.src)) = 3
  /\ position(last.dst) = 0
  /\ Mul(get(last.dst, last.src), ledger_of(last.src)[1].list[1])
       # Mul(ledger_of(last.src)[1].list[1], get(last.dst, last.src))
  /\ get(last.src, last.dst) = last.tf

(* C2: for all frames a, b, c of one group, get(a, b) composed with       *)
(* get(b, c) is get(a, c), wherever the three stand in the chain.         *)
C2_Transitivity ==
  \A a \in DeepFrames, b \in DeepFrames, c \in DeepFrames :
    (same_group(a, b) /\ same_group(b, c)) =>
      /\ IsTransform(get(a, b)) /\ IsTransform(get(b, c)) /\ IsTransform(get(a, c))
      /\ Mul(get(a, b), get(b, c)) = get(a, c)

(* C2 witness: a chain of four frames, with a at the last position, c at  *)
(* the first and b between them, so that a to c is a walk of two table    *)
(* entries taken backwards, and the two factors do not commute.           *)
C2_Witness ==
  /\ some_insert_done
  /\ \E a \in DeepFrames, b \in DeepFrames, c \in DeepFrames :
       /\ same_group(a, b) /\ same_group(b, c)
       /\ position(a) = 3 /\ position(b) = 1 /\ position(c) = 0
       /\ Mul(get(a, b), get(b, c)) # Mul(get(b, c), get(a, b))
       /\ Mul(get(a, b), get(b, c)) = get(a, c)

C4_ErrorLeavesState ==
  (inserted /\ last.res # Ok) => tset = last.before

(* C4 witness: an insert between the ends of a chain of three frames was  *)
(* rejected as inconsistent.                                              *)
C4_Witness ==
  /\ inserted
  /\ last.res = InconsistentTransform
  /\ last.src # last.dst
  /\ Len(ledger_of(last.src)) = 3
  /\ position(last.src) = 2
  /\ position(last.dst) = 0

(* C5: insert(src, dst, T) with src and dst known and in one group        *)
(* returns Ok and changes nothing when T is the transform range-composed  *)
(* between their positions, and the inconsistent-transform error          *)
(* otherwise.                                                             *)
C5_SameGroupCheck ==
  (inserted /\ same_group_before(last.src, last.dst)) =>
    IF last.tf = get_by_range(
                   last.before.mid_to_set[last.before.coord_to_mid[last.src]],
                   position_before(last.src), position_before(last.dst))
    THEN last.res = Ok /\ tset = last.before
    ELSE last.res = InconsistentTransform

(* C5 witness: a derivable fact between the two ends of a chain of three, *)
(* in the direction against the chain, was accepted.                      *)
C5_Witness ==
  /\ inserted_ok
  /\ branch = "same"
  /\ position(last.src) = 2
  /\ position(last.dst) = 0
  /\ last.tf # Inv(last.tf)

built == last.op = "try_from_iter"

(* the <<frame, transform>> pairs derivable from the pairs R along the    *)
(* facts fs, each fact usable in both directions                          *)
RECURSIVE derivable(_, _)
derivable(fs, R) ==
  LET step ==
        R \cup UNION {{<<f.dst, Mul(x[2], f.tf)>> : f \in {g \in fs : g.src = x[1]}}
                        : x \in R}
          \cup UNION {{<<f.src, Mul(x[2], Inv(f.tf))>> : f \in {g \in fs : g.dst = x[1]}}
                        : x \in R}
  IN IF step = R THEN R ELSE derivable(fs, step)

(* fact i differs from a transform the other facts of the list give for   *)
(* its frame pair                                                         *)
contradicted(facts, i) ==
  LET others == {facts[j] : j \in (1..Len(facts)) \ {i}}
  IN \E x \in derivable(others, {<<facts[i].src, Identity>>}) :
       x[1] = facts[i].dst /\ x[2] # facts[i].tf

inconsistent(facts) == \E i \in 1..Len(facts) : contradicted(facts, i)

(* C6: try_from_iter returns the inconsistency error, and no set, for     *)
(* every fact list in which some fact differs from the transform the      *)
(* other facts give for its frame pair.                                   *)
C6_BuildRejectsInconsistent ==
  (built /\ inconsistent(last.facts)) =>
    (last.res = InconsistentTransform /\ tset = Default)

(* C7: insert(f, f, T) with T not the identity returns an error and       *)
(* leaves the state as it was, whether or not f is known.                 *)
C7_SelfLoopRejected ==
  (inserted /\ last.src = last.dst /\ last.tf # Identity) =>
    (last.res # Ok /\ tset = last.before)

bad_self_loop(facts) ==
  \E i \in 1..Len(facts) : facts[i].src = facts[i].dst /\ facts[i].tf # Identity

without_identity_loops(facts) ==
  SelectSeq(facts, LAMBDA f : ~(f.src = f.dst /\ f.tf = Identity))

(* C8: try_from_iter returns the error, and no set, whenever the list     *)
(* holds a fact with src = dst and a transform other than the identity;   *)
(* identity self-loops do not change whether the build succeeds.          *)
C8_BuildRejectsSelfLoop ==
  built =>
    /\ bad_self_loop(last.facts) =>
         (last.res = InconsistentTransform /\ tset = Default)
    /\ last.res = try_from_iter(without_identity_loops(last.facts)).res

(* C8 witness: the offending self-loop stands last, behind an identity    *)
(* self-loop and an ordinary fact.                                        *)
C8_Witness ==
  /\ built
  /\ Len(last.facts) = 3
  /\ last.facts[1].src = last.facts[1].dst /\ last.facts[1].tf = Identity
  /\ last.facts[2].src # last.facts[2].dst
  /\ last.facts[3].src = last.facts[3].dst /\ last.facts[3].tf # Identity
  /\ last.res = InconsistentTransform

(* C9: get(src, dst) is None exactly when src is unknown, dst is unknown  *)
(* or the two are in different groups, and is a transform, never a panic, *)
(* for two known frames of one group.                                     *)
C9_GetAbsentExactly ==
  \A a \in Frames, b \in Frames :
    /\ (get(a, b) = None) <=>
         (~known(a) \/ ~known(b) \/ coord_to_mid[a] # coord_to_mid[b])
    /\ get(a, b) # None => IsTransform(get(a, b))

(* C9 witness: two frames of one group with a transform between them      *)
(* other than the identity and a known frame of another group for which   *)
(* get is None.                                                           *)
C9_Witness ==
  /\ some_insert_done
  /\ \E a \in Frames, b \in Frames, c \in Frames :
       /\ same_group(a, b) /\ a # b
       /\ IsTransform(get(a, b)) /\ get(a, b) # Identity
       /\ known(c) /\ ~same_group(a, c)
       /\ get(a, c) = None /\ get(c, b) = None

(* C10: for all frames a, b of one group, get(a, b) is the inverse of     *)
(* get(b, a).                                                             *)
C10_Symmetry ==
  \A a \in DeepFrames, b \in DeepFrames :
    same_group(a, b) =>
      /\ IsTransform(get(a, b)) /\ IsTransform(get(b, a))
      /\ get(a, b) = Inv(get(b, a))

(* C10 witness: the two ends of a chain of four frames, whose transform   *)
(* is not its own inverse.                                                *)
C10_Witness ==
  /\ some_insert_done
  /\ \E a \in DeepFrames, b \in DeepFrames :
       /\ same_group(a, b)
       /\ position(a) = 0 /\ position(b) = 3
       /\ get(a, b) # get(b, a)
       /\ get(a, b) = Inv(get(b, a))

(* C11: for every known frame f, in every reachable state of a new or a   *)
(* built set, singleton groups included, get(f, f) is the identity.       *)
C11_GetSelfIdentity ==
  \A f \in Frames : known(f) => get(f, f) = Identity

(* C11 witness: a frame that is the only one of its group, next to a      *)
(* group of two, the last of which has an empty table.                    *)
C11_Witness ==
  /\ some_insert_done
  /\ \E f \in Frames, g \in Frames :
       /\ known(f) /\ Len(ledger_of(f)) = 1
       /\ known(g) /\ Len(ledger_of(g)) = 2 /\ position(g) = 1
       /\ get(f, f) = Identity /\ get(g, g) = Identity

(* the answers of two sets to every query agree: contains_coord(a) is the *)
(* same and get(a, b) is None in both or the same transform in both       *)
agree(ts1, ts2) ==
  \A a \in Frames :
    /\ contains_coord(ts1, a) = contains_coord(ts2, a)
    /\ \A b \in Frames : TransformSet_get(ts1, a, b) = TransformSet_get(ts2, a, b)

Orderings(n) ==
  {p \in [1..n -> 1..n] : \A i \in 1..n, j \in 1..n : p[i] = p[j] => i = j}

permuted(facts, p) == [i \in 1..Len(facts) |-> facts[p[i]]]

(* C12: for a consistent fact list, the set built from the list and the   *)
(* set built from any permutation of it answer every get and every        *)
(* contains_coord alike.                                                  *)
C12_BuildOrderIndependent ==
  (built /\ ~inconsistent(last.facts)) =>
    \A p \in Orderings(Len(last.facts)) :
      LET other == try_from_iter(permuted(last.facts, p))
      IN /\ last.res = Ok
         /\ other.res = Ok
         /\ agree(tset, other.ts)

(* C12 witness: three consistent facts over three frames, a permutation   *)
(* of which builds a different chain, and a transform other than the      *)
(* identity between the two ends of the chain built.                      *)
C12_Witness ==
  /\ built
  /\ last.res = Ok
  /\ Len(last.facts) = 3
  /\ ~inconsistent(last.facts)
  /\ \E a \in Frames : known(a) /\ Len(ledger_of(a)) = 3
  /\ \E a \in Frames, b \in Frames :
       /\ same_group(a, b) /\ position(a) = 0 /\ position(b) = 2
       /\ get(a, b) # Identity /\ get(a, b) # Inv(get(a, b))
  /\ \E p \in Orderings(3) :
       LET other == try_from_iter(permuted(last.facts, p))
       IN /\ other.ts.mid_to_set # mid_to_set
          /\ agree(tset, other.ts)

(* C13: for every reachable set S, every export of S is built without     *)
(* error into a set that answers contains_coord and get as S does, for    *)
(* all frames, the frames that are alone in their group included.         *)
C13_ExportBuildLossless ==
  \A e \in to_facts(tset) :
    /\ e.res = Ok
    /\ LET b == try_from_iter(e.facts)
       IN b.res = Ok /\ agree(tset, b.ts)

(* the ids of the groups that hold a frame *)
groups == {coord_to_mid[c] : c \in DOMAIN coord_to_mid}

RECURSIVE edges_total(_)
edges_total(ms) ==
  IF ms = {} THEN 0
  ELSE LET m == CHOOSE x \in ms : TRUE
       IN (Len(mid_to_set[m]) - 1) + edges_total(ms \ {m})

(* a and b are neighbours in a chain, a first *)
adjacent(a, b) == same_group(a, b) /\ position(b) = position(a) + 1

(* C14: every export holds, for each group, exactly the facts (frame at   *)
(* p, frame at p + 1, L[p][0]) for p = 0..n-2, in chain order, and        *)
(* nothing else: their number is the sum over the groups of size - 1.     *)
C14_ExportIsChain ==
  \A e \in to_facts(tset) :
    /\ e.res = Ok
    /\ Len(e.facts) = edges_total(groups)
    /\ \A i \in 1..Len(e.facts) :
         /\ adjacent(e.facts[i].src, e.facts[i].dst)
         /\ e.facts[i].tf =
              get_by_pow_index(ledger_of(e.facts[i].src), position(e.facts[i].src), 0)
    /\ \A a \in DeepFrames, b \in DeepFrames :
         adjacent(a, b) =>
           Cardinality({i \in 1..Len(e.facts) :
                          e.facts[i].src = a /\ e.facts[i].dst = b}) = 1
    /\ \A i \in 1..Len(e.facts), j \in 1..Len(e.facts) :
         (i < j /\ same_group(e.facts[i].src, e.facts[j].src)) =>
           /\ position(e.facts[i].src) < position(e.facts[j].src)
           /\ \A k \in i..j : same_group(e.facts[i].src, e.facts[k].src)

(* C14 witness: a chain of four frames, whose first table has two levels  *)
(* that differ, exported as three facts.                                  *)
C14_Witness ==
  /\ some_insert_done
  /\ \E a \in DeepFrames :
       /\ known(a) /\ Len(ledger_of(a)) = 4 /\ position(a) = 0
       /\ Len(ledger_of(a)[1].list) = 2
       /\ ledger_of(a)[1].list[1] # ledger_of(a)[1].list[2]
  /\ \E e \in to_facts(tset) : e.res = Ok /\ Len(e.facts) = 3

(* the ids in use in the set before the call held in last *)
ids_before ==
  DOMAIN last.before.mid_to_set
    \cup {last.before.coord_to_mid[c] : c \in DOMAIN last.before.coord_to_mid}

(* C15: an insert(src, dst, T) with src and dst in different groups       *)
(* removes both groups' ids from mid_to_set, registers exactly one new    *)
(* ledger under an id that was not in use, maps every frame formerly in   *)
(* either group to that id and leaves every other frame's id as it was.   *)
C15_MergeRetiresIds ==
  (inserted /\ branch = "merge") =>
    LET src_mid == last.before.coord_to_mid[last.src]
        dst_mid == last.before.coord_to_mid[last.dst]
        fresh == DOMAIN mid_to_set \ DOMAIN last.before.mid_to_set
    IN /\ src_mid \notin DOMAIN mid_to_set
       /\ dst_mid \notin DOMAIN mid_to_set
       /\ Cardinality(fresh) = 1
       /\ fresh \cap ids_before = {}
       /\ DOMAIN mid_to_set =
            (DOMAIN last.before.mid_to_set \ {src_mid, dst_mid}) \cup fresh
       /\ \A m \in DOMAIN mid_to_set \ fresh :
            mid_to_set[m] = last.before.mid_to_set[m]
       /\ DOMAIN coord_to_mid = DOMAIN last.before.coord_to_mid
       /\ \A c \in DOMAIN coord_to_mid :
            IF last.before.coord_to_mid[c] \in {src_mid, dst_mid}
            THEN coord_to_mid[c] \in fresh
            ELSE coord_to_mid[c] = last.before.coord_to_mid[c]

(* C15 witness: a merge of a group of two with a group of one, the        *)
(* counter being past the ids of both.                                    *)
C15_Witness ==
  /\ inserted_ok
  /\ branch = "merge"
  /\ Cardinality(DOMAIN last.before.mid_to_set) = 2
  /\ Cardinality(DOMAIN mid_to_set) = 1
  /\ Cardinality(DOMAIN coord_to_mid) = 3
  /\ last.before.mid > 2
  /\ \A c \in DOMAIN coord_to_mid : coord_to_mid[c] = last.before.mid

(* the places <<id, index>> at which frame f is stored in a ledger *)
places(f) ==
  {x \in UNION {{<<m, i>> : i \in 1..Len(mid_to_set[m])} : m \in DOMAIN mid_to_set} :
     mid_to_set[x[1]][x[2]].coord = f}

(* C16: in every reachable state each known frame is stored at exactly    *)
(* one place, in the ledger registered under the id coord_to_mid gives    *)
(* for it; every frame stored in a registered ledger is in coord_to_mid   *)
(* with that ledger's id; every id coord_to_mid gives is a key of         *)
(* mid_to_set.                                                            *)
C16_OneGroupPerFrame ==
  /\ \A f \in DOMAIN coord_to_mid :
       /\ coord_to_mid[f] \in DOMAIN mid_to_set
       /\ Cardinality(places(f)) = 1
       /\ \A x \in places(f) : x[1] = coord_to_mid[f]
  /\ \A m \in DOMAIN mid_to_set :
       \A i \in 1..Len(mid_to_set[m]) :
         /\ mid_to_set[m][i].coord \in DOMAIN coord_to_mid
         /\ coord_to_mid[mid_to_set[m][i].coord] = m

(* C16 witness: after merges, all three frames in one ledger registered   *)
(* under an id handed out by a merge.                                     *)
C16_Witness ==
  /\ some_insert_done
  /\ DOMAIN coord_to_mid = Frames
  /\ Cardinality(DOMAIN mid_to_set) = 1
  /\ \A f \in Frames : coord_to_mid[f] >= 3 /\ Cardinality(places(f)) = 1

(* the frames reached from the frames S along the frame pairs E *)
RECURSIVE reach(_, _)
reach(S, E) ==
  LET step == S \cup UNION {e \in E : e \cap S # {}}
  IN IF step = S THEN S ELSE reach(step, E)

connected(a, b, E) == b \in reach({a}, E)

logged == last.op = "log"

(* C17: after any sequence of inserts into a new set, a frame is known    *)
(* exactly when an accepted fact names it, and two distinct known frames  *)
(* are in one group, get giving a transform for them, exactly when a path *)
(* of accepted facts connects them.                                       *)
C17_GroupsAreComponents ==
  logged =>
    /\ \A a \in Frames : known(a) <=> (\E e \in last.accepted : a \in e)
    /\ \A a \in Frames, b \in Frames :
         (a # b /\ known(a) /\ known(b)) =>
           /\ same_group(a, b) <=> connected(a, b, last.accepted)
           /\ IsTransform(get(a, b)) <=> connected(a, b, last.accepted)

(* C17 witness: a and c were never inserted together and are in one group *)
(* through b, after a merge of the group of b and c with the group of a.  *)
C17_Witness ==
  /\ logged
  /\ last.accepted = {{1}, {2, 3}, {1, 2}}
  /\ same_group(1, 3)
  /\ IsTransform(get(1, 3))

(* the facts inserted one by one, in list order, from fact i on: the set  *)
(* of [ts, res], res being Ok when every insert returned Ok               *)
RECURSIVE insert_each(_, _, _)
insert_each(ts, facts, i) ==
  IF i > Len(facts) THEN {[ts |-> ts, res |-> Ok]}
  ELSE UNION {IF r.res # Ok THEN {[ts |-> r.ts, res |-> r.res]}
              ELSE insert_each(r.ts, facts, i + 1)
              : r \in TransformSet_insert(ts, facts[i].src, facts[i].dst, facts[i].tf)}

(* C18: for every consistent fact list, the set built from the list and   *)
(* the set got by inserting the facts one by one, in list order, into a   *)
(* new set agree on contains_coord and on get for all frames.             *)
C18_BuildMatchesInserts ==
  (built /\ ~inconsistent(last.facts)) =>
    /\ last.res = Ok
    /\ \A s \in insert_each(Default, last.facts, 1) :
         s.res = Ok /\ agree(tset, s.ts)

(* L[p][0] * L[p + 1][0] * ... over count steps from position p *)
RECURSIVE steps_product(_, _, _)
steps_product(lookup, p, count) ==
  IF count = 0 THEN Identity
  ELSE Mul(lookup[p + 1].list[1], steps_product(lookup, p + 1, count - 1))

(* C19: in every reachable ledger of n frames, the table of position p    *)
(* has an entry at level k exactly when p + 2^k <= n - 1, and that entry  *)
(* is the product of the level-0 entries of p, p + 1, ..., p + 2^k - 1 in *)
(* chain order.                                                           *)
C19_LevelTable ==
  \A m \in DOMAIN mid_to_set :
    LET lookup == mid_to_set[m]
        n == Len(lookup)
    IN \A p \in 0..(n - 1), k \in 0..n :
         /\ (k < Len(lookup[p + 1].list)) <=> (p + Pow2(k) <= n - 1)
         /\ (k < Len(lookup[p + 1].list)) =>
              lookup[p + 1].list[k + 1] = steps_product(lookup, p, Pow2(k))

(* C19 witness: a chain of five frames whose first table has three        *)
(* levels, all different, over steps that do not commute.                 *)
C19_Witness ==
  /\ some_insert_done
  /\ \E m \in DOMAIN mid_to_set :
       LET lookup == mid_to_set[m]
       IN /\ Len(lookup) = 5
          /\ Len(lookup[1].list) = 3
          /\ Len(lookup[2].list) = 2
          /\ Len(lookup[5].list) = 0
          /\ Cardinality({lookup[1].list[k] : k \in 1..3}) = 3
          /\ Mul(lookup[1].list[1], lookup[2].list[1])
               # Mul(lookup[2].list[1], lookup[1].list[1])
          /\ lookup[1].list[3] = steps_product(lookup, 0, 4)

(* C20: in every reachable ledger, after every append and every merge,    *)
(* every entry of level k >= 1 at position p is the level k - 1 entry of  *)
(* p times the level k - 1 entry of p + 2^(k-1), and assert_consistency   *)
(* passes.                                                                *)
C20_Telescoping ==
  \A m \in DOMAIN mid_to_set :
    LET lookup == mid_to_set[m]
        n == Len(lookup)
    IN /\ \A p \in 0..(n - 1), k \in 1..n :
            (k < Len(lookup[p + 1].list)) =>
              /\ p + Pow2(k - 1) <= n - 1
              /\ k - 1 < Len(lookup[p + Pow2(k - 1) + 1].list)
              /\ lookup[p + 1].list[k + 1] =
                   Mul(lookup[p + 1].list[k], lookup[p + Pow2(k - 1) + 1].list[k])
       /\ assert_consistency(lookup) = Ok

(* C20 witness: the two built chains joined at a frame that stood second  *)
(* in its chain, into a ledger of five frames whose first table has a     *)
(* level 2 entry that the two level 1 entries give and their reverse      *)
(* product does not.                                                      *)
C20_Witness ==
  /\ some_insert_done
  /\ mid = 3
  /\ \E m \in DOMAIN mid_to_set :
       LET lookup == mid_to_set[m]
       IN /\ Len(lookup) = 5
          /\ lookup[4].coord = NumFrames + 2
          /\ lookup[5].coord = NumFrames + 1
          /\ Len(lookup[1].list) = 3
          /\ lookup[1].list[3] = Mul(lookup[1].list[2], lookup[3].list[2])
          /\ lookup[1].list[3] # Mul(lookup[3].list[2], lookup[1].list[2])

RECURSIVE floor_log2(_)
floor_log2(q) == IF q <= 1 THEN 0 ELSE 1 + floor_log2(q \div 2)

RECURSIVE total_entries(_, _)
total_entries(lookup, i) ==
  IF i > Len(lookup) THEN 0 ELSE Len(lookup[i].list) + total_entries(lookup, i + 1)

(* after is before with position q appended: an empty table for q, one    *)
(* entry pushed as level nth onto the table of q - 2^nth for every nth    *)
(* with q - 2^nth >= 0, and every entry of before where it was            *)
pushed_for(before, after, q) ==
  /\ Len(after) = q + 1
  /\ after[q + 1].list = <<>>
  /\ \A p \in 0..(q - 1) :
       LET old == before[p + 1].list
           new == after[p + 1].list
           nths == {nth \in 0..q : q - 2^nth = p}
       IN /\ after[p + 1].coord = before[p + 1].coord
          /\ Len(new) >= Len(old)
          /\ SubSeq(new, 1, Len(old)) = old
          /\ IF nths = {} THEN new = old
             ELSE /\ Len(new) = Len(old) + 1
                  /\ \A nth \in nths : Len(new) = nth + 1
  /\ total_entries(after, 1) = total_entries(before, 1) + floor_log2(q) + 1

(* a frame name past those the inserts use *)
new_coord == NumFrames + 4

(* C21: an append that creates position q returns without a panic, gives  *)
(* q an empty table, pushes exactly one entry, as level nth, onto the     *)
(* table of q - 2^nth for each nth >= 0 with q - 2^nth >= 0, changes no   *)
(* entry that existed, and pushes floor(log2(q)) + 1 entries in all.      *)
C21_AppendPushes ==
  \A m \in DOMAIN mid_to_set :
    LET lookup == mid_to_set[m]
        q == Len(lookup)
    IN \A i \in 1..q, tf \in Isometry :
         LET as_dst == MutualSet_insert(lookup, lookup[i].coord, new_coord, tf)
             as_src == MutualSet_insert(lookup, new_coord, lookup[i].coord, tf)
         IN /\ as_dst.res = Ok /\ pushed_for(lookup, as_dst.lookup, q)
            /\ as_src.res = Ok /\ pushed_for(lookup, as_src.lookup, q)
            /\ as_dst.lookup[q + 1].coord = new_coord
            /\ as_src.lookup[q + 1].coord = new_coord

(* C21 witness: a ledger of six frames, the last of which was appended as *)
(* position 5 with pushes onto the tables of positions 4, 3 and 1, and    *)
(* onto which an append creates position 6 with pushes onto 5, 4 and 2.   *)
C21_Witness ==
  /\ some_insert_done
  /\ \E m \in DOMAIN mid_to_set :
       LET lookup == mid_to_set[m]
       IN /\ Len(lookup) = 6
          /\ Len(lookup[5].list) = 1 /\ Len(lookup[4].list) = 2
          /\ Len(lookup[2].list) = 3 /\ Len(lookup[6].list) = 0
          /\ \E tf \in Isometry :
               LET r == MutualSet_insert(lookup, lookup[2].coord, new_coord, tf)
               IN /\ r.res = Ok
                  /\ Len(r.lookup[6].list) = 1 /\ Len(r.lookup[5].list) = 2
                  /\ Len(r.lookup[3].list) = 3 /\ Len(r.lookup[1].list) = 3
                  /\ r.lookup[3].list[3] # r.lookup[5].list[2]

RECURSIVE popcount(_)
popcount(d) == IF d = 0 THEN 0 ELSE (d % 2) + popcount(d \div 2)

(* the index of the lowest set bit of d > 0 *)
lowest_set_bit(d) == CHOOSE b \in 0..d : d % (2^b) = 0 /\ (d \div (2^b)) % 2 = 1

(* the entries read, multiplied left to right *)
RECURSIVE reads_product(_, _, _)
reads_product(lookup, reads, i) ==
  IF i > Len(reads) THEN Identity
  ELSE Mul(lookup[reads[i].at + 1].list[reads[i].pow + 1],
           reads_product(lookup, reads, i + 1))

(* C22: for any two positions of a reachable ledger, get_by_range(start,  *)
(* end) is the identity when start = end; otherwise it walks from lo =    *)
(* min to hi = max, reading at each step the entry of the current         *)
(* position at the level of the lowest set bit of hi - current, reads     *)
(* only entries that exist, arrives at hi after popcount(hi - lo) steps,  *)
(* and returns the left-to-right product of the entries read when start < *)
(* end and its inverse when start > end.                                  *)
C22_RangeWalk ==
  \A m \in DOMAIN mid_to_set :
    LET lookup == mid_to_set[m]
        n == Len(lookup)
    IN \A start \in 0..(n - 1), end \in 0..(n - 1) :
         LET lo == IF start <= end THEN start ELSE end
             hi == IF start <= end THEN end ELSE start
             reads == range_reads(lo, hi - lo)
             prod == reads_product(lookup, reads, 1)
         IN /\ start = end => get_by_range(lookup, start, end) = Identity
            /\ Len(reads) = popcount(hi - lo)
            /\ \A i \in 1..Len(reads) :
                 /\ reads[i].at = IF i = 1 THEN lo
                                  ELSE reads[i - 1].at + 2^(reads[i - 1].pow)
                 /\ reads[i].pow = lowest_set_bit(hi - reads[i].at)
                 /\ reads[i].pow < Len(lookup[reads[i].at + 1].list)
            /\ Len(reads) > 0 =>
                 reads[Len(reads)].at + 2^(reads[Len(reads)].pow) = hi
            /\ start < end => get_by_range(lookup, start, end) = prod
            /\ start > end => get_by_range(lookup, start, end) = Inv(prod)
            /\ prod = steps_product(lookup, lo, hi - lo)

(* C22 witness: in a ledger of six frames the walk from position 5 back   *)
(* to position 0 reads level 0 at position 0 and level 2 at position 1,   *)
(* two entries that do not commute, and returns the inverse of their      *)
(* product, which is not its own inverse.                                 *)
C22_Witness ==
  /\ some_insert_done
  /\ \E m \in DOMAIN mid_to_set :
       LET lookup == mid_to_set[m]
       IN /\ Len(lookup) = 6
          /\ range_reads(0, 5) = <<[at |-> 0, pow |-> 0], [at |-> 1, pow |-> 2]>>
          /\ Mul(lookup[1].list[1], lookup[2].list[3])
               # Mul(lookup[2].list[3], lookup[1].list[1])
          /\ get_by_range(lookup, 5, 0) = Inv(Mul(lookup[1].list[1], lookup[2].list[3]))
          /\ get_by_range(lookup, 5, 0) # get_by_range(lookup, 0, 5)

(* the length of the ledger frame c was in before the call held in last *)
chain_length_before(c) ==
  Len(last.before.mid_to_set[last.before.coord_to_mid[c]])

(* C23: a frame's position in its ledger never changes and no two places  *)
(* of a ledger hold one frame: an insert leaves every known frame at its  *)
(* position, the frames of dst's group in a merge excepted, which move to *)
(* the ledger of src's group; an append gives the new frame the position  *)
(* equal to the chain length before the call, wherever the known frame of *)
(* the fact stands.                                                       *)
C23_PositionsFixed ==
  inserted =>
    /\ \A f \in Frames :
         (contains_coord(last.before, f)
            /\ (branch = "merge" => same_group_before(f, last.src))) =>
           (known(f) /\ position(f) = position_before(f))
    /\ branch = "append_dst" =>
         position(last.dst) = chain_length_before(last.src)
    /\ branch = "append_src" =>
         position(last.src) = chain_length_before(last.dst)
    /\ \A m \in DOMAIN mid_to_set :
         \A i \in 1..Len(mid_to_set[m]), j \in 1..Len(mid_to_set[m]) :
           mid_to_set[m][i].coord = mid_to_set[m][j].coord => i = j

(* C23 witness: a frame appended next to the first frame of a chain of    *)
(* two takes position 2 and the two keep positions 0 and 1.               *)
C23_Witness ==
  /\ inserted_ok
  /\ branch \in {"append_src", "append_dst"}
  /\ \E f \in Frames, g \in Frames, h \in Frames :
       /\ {f, h} = {last.src, last.dst}
       /\ ~contains_coord(last.before, h)
       /\ same_group_before(f, g)
       /\ position_before(f) = 0 /\ position_before(g) = 1
       /\ position(f) = 0 /\ position(g) = 1 /\ position(h) = 2

(* C24: when insert(src, dst, T) merges src's group A of n frames with    *)
(* dst's group B, A's frames keep positions 0..n-1 and the frame at       *)
(* position i of B gets position n + i, whichever position dst had in B.  *)
C24_MergeKeepsOrder ==
  (inserted /\ branch = "merge") =>
    /\ last.res = Ok
    /\ \A f \in Frames :
         same_group_before(f, last.src) =>
           (same_group(f, last.src) /\ position(f) = position_before(f))
    /\ \A f \in Frames :
         same_group_before(f, last.dst) =>
           /\ same_group(f, last.src)
           /\ position(f) = chain_length_before(last.src) + position_before(f)

sorted == last.op = "sorted"

(* the inserted edges as sets of end points, and the nodes they name *)
log_edges == {{last.log[i][1], last.log[i][2]} : i \in 1..Len(last.log)}

log_nodes == UNION log_edges

(* the start and the child end points of a component *)
comp_nodes(comp) == {comp.start} \cup {comp.seq[i][2] : i \in 1..Len(comp.seq)}

(* C25: for any edges inserted, sort returns one component per connected  *)
(* component of the undirected graph; the start and the children of seq   *)
(* are the nodes of that connected component, each once, the start never  *)
(* a child; every (parent, child) of seq is an inserted edge in one of    *)
(* its directions and its parent is the start or the child of an earlier  *)
(* seq edge.                                                              *)
C25_SortSpans ==
  sorted =>
    LET comps == last.comps
    IN /\ \A v \in log_nodes :
            Cardinality({k \in 1..Len(comps) : v \in comp_nodes(comps[k])}) = 1
       /\ \A k \in 1..Len(comps) :
            LET comp == comps[k]
            IN /\ comp_nodes(comp) = reach({comp.start}, log_edges)
               /\ comp.start \in log_nodes
               /\ Cardinality(comp_nodes(comp)) = 1 + Len(comp.seq)
               /\ \A i \in 1..Len(comp.seq) :
                    /\ comp.seq[i][1] # comp.seq[i][2]
                    /\ {comp.seq[i][1], comp.seq[i][2]} \in log_edges
                    /\ \/ comp.seq[i][1] = comp.start
                       \/ \E j \in 1..(i - 1) : comp.seq[j][2] = comp.seq[i][1]

(* C25 witness: a triangle, the third edge of which closes the cycle, is  *)
(* sorted into one component of two seq edges.                            *)
C25_Witness ==
  /\ sorted
  /\ Len(last.log) = 3
  /\ Cardinality(log_edges) = 3
  /\ Cardinality(log_nodes) = 3
  /\ Len(last.comps) = 1
  /\ Len(last.comps[1].seq) = 2

(* when a node was first named by an inserted edge: the edge's place in   *)
(* the log, its first end before its second                               *)
first_named(v) ==
  LET i == CHOOSE i \in 1..Len(last.log) :
             /\ v \in {last.log[i][1], last.log[i][2]}
             /\ \A j \in 1..(i - 1) : v \notin {last.log[j][1], last.log[j][2]}
  IN 2 * i + (IF last.log[i][1] = v THEN 0 ELSE 1)

(* when the edge between u and v was first inserted, in either direction *)
first_joined(u, v) ==
  CHOOSE i \in 1..Len(last.log) :
    /\ {last.log[i][1], last.log[i][2]} = {u, v}
    /\ \A j \in 1..(i - 1) : {last.log[j][1], last.log[j][2]} # {u, v}

(* the nodes of a component in the order sort reached them *)
visit_order(comp) == <<comp.start>> \o [i \in 1..Len(comp.seq) |-> comp.seq[i][2]]

visit_place(comp, v) ==
  CHOOSE p \in 1..(1 + Len(comp.seq)) : visit_order(comp)[p] = v

(* C26: sort depends on the insertion order only. Components come in the  *)
(* order of their earliest-inserted node, which is their start; seq is    *)
(* the breadth-first tree from the start with neighbours taken in edge    *)
(* insertion order: the parent of a child is the earliest-reached node    *)
(* joined to it, and children come by their parent's place and then by    *)
(* the insertion of their edge, so an edge closing a cycle is left out. A *)
(* node inserted only by insert_edge(a, a) is a component of empty seq,   *)
(* and an empty sorter has no component. The outputs of the repository's  *)
(* test are the ones returned.                                            *)
C26_SortIsBfs ==
  sorted =>
    LET comps == last.comps
    IN /\ (Len(last.log) = 0 => comps = <<>>)
       /\ \A k \in 1..Len(comps) :
            LET comp == comps[k]
                n == Len(comp.seq)
            IN /\ \A v \in comp_nodes(comp) : first_named(comp.start) <= first_named(v)
               /\ \A l \in 1..(k - 1) :
                    first_named(comps[l].start) < first_named(comp.start)
               /\ (\A e \in log_edges : comp.start \in e => e = {comp.start})
                    => comp.seq = <<>>
               /\ n = Cardinality({e \in log_edges : Cardinality(e) = 2 /\ e \subseteq comp_nodes(comp)})
                    => \A e \in log_edges :
                         (Cardinality(e) = 2 /\ e \subseteq comp_nodes(comp))
                           => \E i \in 1..n : e = {comp.seq[i][1], comp.seq[i][2]}
               /\ \A i \in 1..n :
                    LET parent == comp.seq[i][1]
                        child == comp.seq[i][2]
                    IN /\ {parent, child} \in log_edges
                       /\ \A u \in comp_nodes(comp) :
                            {u, child} \in log_edges /\ u # child
                              => visit_place(comp, parent) <= visit_place(comp, u)
                       /\ \A j \in 1..(i - 1) :
                            LET parent_j == comp.seq[j][1]
                                child_j == comp.seq[j][2]
                            IN \/ visit_place(comp, parent_j) < visit_place(comp, parent)
                               \/ /\ parent_j = parent
                                  /\ first_joined(parent, child_j) < first_joined(parent, child)
       /\ (last.log = <<<<1, 1>>>> => comps = <<[start |-> 1, seq |-> <<>>]>>)
       /\ (last.log = <<<<1, 2>>, <<1, 3>>, <<2, 3>>>>
             => comps = <<[start |-> 1, seq |-> <<<<1, 2>>, <<1, 3>>>>]>>)

(* C26 witness: a start with two neighbours, whose order is the order of  *)
(* their edges, and a second component made by a self-loop only.          *)
C26_Witness ==
  /\ sorted
  /\ Len(last.comps) = 2
  /\ Len(last.comps[1].seq) = 2
  /\ last.comps[1].seq[1][1] = last.comps[1].seq[2][1]
  /\ last.comps[2].seq = <<>>

(* what the `for trans in iter` loop of the last build left *)
last_read == read_facts(last.facts, 1, TopologicalSort_new, EmptyMap)

(* the walk of the last build's k-th component, fed to a new ledger *)
last_fed(k) == feed_seq(sort(last_read.topo)[k].seq, 1, last_read.adj, EmptyLookup, <<>>)

fed_build == built /\ last_read.res = Ok

(* C27: during build every walk edge fed to a component's ledger takes    *)
(* the create path, as the first edge into the empty ledger, or the       *)
(* append path with its parent in the ledger and its child not; none      *)
(* reaches the both-known check or the disjoint-coordinates error, every  *)
(* insert returns Ok and the unwrap does not panic.                       *)
C27_BuildFeedsAppends ==
  fed_build =>
    /\ last.res # PanicRes
    /\ \A k \in 1..Len(sort(last_read.topo)) :
         LET fed == last_fed(k)
             seq == sort(last_read.topo)[k].seq
         IN /\ fed.res = Ok
            /\ Len(fed.arms) = Len(seq)
            /\ \A i \in 1..Len(seq) :
                 fed.arms[i] = IF i = 1 THEN "create" ELSE "append_dst"

(* C27 witness: a build from three facts that close a cycle feeds a       *)
(* create and an append into one ledger and leaves the third fact out.    *)
C27_Witness ==
  /\ fed_build
  /\ Len(last.facts) = 3
  /\ Cardinality({{last.facts[i].src, last.facts[i].dst} : i \in 1..3}) = 3
  /\ \A i \in 1..3 : last.facts[i].src # last.facts[i].dst
  /\ Len(sort(last_read.topo)) = 1
  /\ last_fed(1).arms = <<"create", "append_dst">>

(* C28: answers are stable. A frame that contains() knows stays known and *)
(* a transform that get(a, b) returns is returned again after the next    *)
(* insert call, be it an append, a merge, a no-op or a rejected call; by  *)
(* induction after every later call.                                      *)
C28_AnswersStable ==
  inserted =>
    /\ \A f \in Frames : contains_coord(last.before, f) => known(f)
    /\ \A a \in Frames, b \in Frames :
         IsTransform(get_before(a, b)) => get(a, b) = get_before(a, b)

(* C28 witness: a call has merged two groups, within each of which the    *)
(* set had an answer that is not the identity, into one that answers for  *)
(* every pair.                                                            *)
C28_Witness ==
  /\ inserted_ok
  /\ branch = "merge"
  /\ \E a \in Frames, b \in Frames :
       a # b /\ IsTransform(get_before(a, b)) /\ get_before(a, b) # Identity
  /\ \A a \in Frames, b \in Frames : IsTransform(get(a, b))

(* C29: every insert call, whatever its frame names and transform, on a   *)
(* set that started empty or built, returns Ok or the                     *)
(* inconsistent-transform error: no unwrap panics in insert or in the     *)
(* ledger merge, the ledger's disjoint-coordinates error is not returned  *)
(* and the ledger merge finds a common frame.                             *)
C29_InsertTotal ==
  inserted => last.res \in {Ok, InconsistentTransform}

(* C29 witness: a call has merged two groups of a set whose build left an *)
(* empty ledger registered, and returned Ok.                              *)
C29_Witness ==
  /\ inserted_ok
  /\ branch = "merge"
  /\ \E m \in DOMAIN last.before.mid_to_set : Len(last.before.mid_to_set[m]) = 0

(* --------------- the flat TransformSet of transform_set.rs ------------ *)
(* One table `lookup` for all frames, of the same shape as a MutualSet's. *)

(* the while loop of the flat get_by_range: tf = tf_list[count] * tf *)
RECURSIVE flat_range_walk(_, _, _, _)
flat_range_walk(lookup, curr, diff, tf) ==
  IF diff = 0 THEN tf
  ELSE LET count == trailing_zeros(diff)
           pow == Pow2(count)
       IN IF curr >= Len(lookup) THEN Panic
          ELSE IF count >= Len(lookup[curr + 1].list) THEN Panic
          ELSE flat_range_walk(lookup, curr + pow, diff - pow,
                               Mul(lookup[curr + 1].list[count + 1], tf))

flat_get_by_range(lookup, start, end) ==
  LET min == IF start <= end THEN start ELSE end
      max == IF start <= end THEN end ELSE start
      inverse == ~(start <= end)
  IN IF max >= Len(lookup) THEN None
     ELSE LET tf == flat_range_walk(lookup, min, max - min, Identity)
          IN IF tf = Panic THEN Panic
             ELSE IF inverse THEN Inv(tf) ELSE tf

flat_get(lookup, src, dst) ==
  LET src_idx == get_index_of(lookup, src)
      dst_idx == get_index_of(lookup, dst)
  IN IF src_idx = NoneIdx \/ dst_idx = NoneIdx THEN None
     ELSE flat_get_by_range(lookup, src_idx, dst_idx)

(* the `for nth in 0..usize::BITS` loop of the flat insert, the same text *)
(* as the loop of MutualSet::insert                                       *)
flat_push_loop(lookup, last_idx, nth, latter_tf) ==
  push_loop(lookup, last_idx, nth, latter_tf)

(* the flat insert: [lookup, res]; res is "ErrNone" for Err(None) and     *)
(* InconsistentTransform for Err(Some(expect))                            *)
flat_insert(lookup, src, dst, tf) ==
  LET src_idx == get_index_of(lookup, src)
      dst_idx == get_index_of(lookup, dst)
      append(to_base, from_idx, t) ==
        LET grown == lookup_insert(lookup, to_base, <<>>)
            last_idx == Len(grown) - 1
            former_tf == flat_get_by_range(grown, from_idx, last_idx - 1)
        IN IF former_tf = None \/ former_tf = Panic
           THEN [lookup |-> grown, res |-> PanicRes]
           ELSE flat_push_loop(grown, last_idx, 0, Mul(Inv(former_tf), t))
  IN CASE src_idx = NoneIdx /\ dst_idx = NoneIdx ->
            IF Len(lookup) = 0
            THEN [lookup |-> lookup_insert(lookup_insert(lookup, src, <<tf>>),
                                           dst, <<>>),
                  res |-> Ok]
            ELSE [lookup |-> lookup, res |-> "ErrNone"]
       [] src_idx = NoneIdx /\ dst_idx # NoneIdx -> append(src, dst_idx, Inv(tf))
       [] src_idx # NoneIdx /\ dst_idx = NoneIdx -> append(dst, src_idx, tf)
       [] OTHER ->
            LET expect == flat_get_by_range(lookup, src_idx, dst_idx)
            IN IF expect = None \/ expect = Panic
               THEN [lookup |-> lookup, res |-> PanicRes]
               ELSE IF tf = expect
               THEN [lookup |-> lookup, res |-> Ok]
               ELSE [lookup |-> lookup, res |-> InconsistentTransform]

(* adj: the edges with src != dst, each in both directions, grouped by    *)
(* their first frame into HashMaps, a later value replacing an earlier    *)
RECURSIVE flat_adj(_, _, _)
flat_adj(facts, i, adj) ==
  IF i > Len(facts) THEN adj
  ELSE LET src == facts[i].src
           dst == facts[i].dst
           tf == facts[i].tf
       IN IF src = dst THEN flat_adj(facts, i + 1, adj)
          ELSE flat_adj(facts, i + 1,
                        adj_insert(adj_insert(adj, src, dst, tf), dst, src, Inv(tf)))

(* the orders in which a HashMap may yield the keys S *)
iter_orders(S) ==
  {o \in [1..Cardinality(S) -> S] :
     \A i \in DOMAIN o, j \in DOMAIN o : o[i] = o[j] => i = j}

(* the `for (dst, tf) in &adj[src]` loop, the keys taken in the order o *)
RECURSIVE flat_feed(_, _, _, _, _)
flat_feed(lookup, src, o, i, adj) ==
  IF i > Len(o) THEN [lookup |-> lookup, res |-> Ok]
  ELSE LET r == flat_insert(lookup, src, o[i], adj[src][o[i]])
       IN IF r.res = Ok THEN flat_feed(r.lookup, src, o, i + 1, adj)
          ELSE IF r.res = InconsistentTransform
          THEN [lookup |-> r.lookup, res |-> InconsistentTransform]
          ELSE [lookup |-> r.lookup, res |-> PanicRes]

(* the `while let Some(src) = frontiers.pop_front()` loop and the ensure  *)
(* after it: the set of [lookup, res] over the orders of the HashMaps     *)
RECURSIVE flat_bfs(_, _, _, _)
flat_bfs(frontiers, visited, adj, lookup) ==
  IF Len(frontiers) = 0
  THEN {[lookup |-> lookup,
         res |-> IF Cardinality(visited) = Cardinality(DOMAIN adj)
                 THEN Ok ELSE "Disjoint"]}
  ELSE LET src == Head(frontiers)
       IN IF src \in visited
          THEN flat_bfs(Tail(frontiers), visited, adj, lookup)
          ELSE UNION {LET fed == flat_feed(lookup, src, o, 1, adj)
                      IN IF fed.res # Ok THEN {fed}
                         ELSE flat_bfs(Tail(frontiers) \o o, visited \cup {src},
                                       adj, fed.lookup)
                        : o \in iter_orders(DOMAIN adj[src])}

(* the flat try_from_iter: the set of [lookup, res] it may end in *)
flat_try_from_iter(facts) ==
  LET adj == flat_adj(facts, 1, EmptyMap)
  IN IF \E i \in 1..Len(facts) :
          facts[i].src = facts[i].dst /\ facts[i].tf # Identity
     THEN {[lookup |-> EmptyLookup, res |-> "NotIdentity"]}
     ELSE IF DOMAIN adj = {} THEN {[lookup |-> EmptyLookup, res |-> Ok]}
     ELSE UNION {flat_bfs(<<first>>, {}, adj, EmptyLookup) : first \in DOMAIN adj}

(* the caller's fact list, frames named in the order of their first use *)
InitFlat ==
  /\ mid = Default.mid
  /\ coord_to_mid = Default.coord_to_mid
  /\ mid_to_set = Default.mid_to_set
  /\ last = [op |-> "facts", facts |-> <<>>]

named(facts) == UNION {{facts[i].src, facts[i].dst} : i \in 1..Len(facts)}

(* one more CoordTransform at the end of the caller's list *)
AddFact(src, dst, tf) ==
  /\ last.op = "facts"
  /\ Len(last.facts) < MaxFacts
  /\ src \in named(last.facts) \cup {Cardinality(named(last.facts)) + 1}
  /\ dst \in named(last.facts) \cup {src}
               \cup {Cardinality(named(last.facts) \cup {src}) + 1}
  /\ last' = [op |-> "facts",
              facts |-> Append(last.facts, [src |-> src, dst |-> dst, tf |-> tf])]
  /\ UNCHANGED <<mid, coord_to_mid, mid_to_set>>

(* let set = TransformSet::try_from_iter(facts) of transform_set.rs *)
FlatBuild ==
  /\ last.op = "facts"
  /\ \E r \in flat_try_from_iter(last.facts) :
       last' = [op |-> "flat_try_from_iter", facts |-> last.facts,
                lookup |-> r.lookup, res |-> r.res]
  /\ UNCHANGED <<mid, coord_to_mid, mid_to_set>>

NextFlat ==
  \/ \E src \in DeepFrames, dst \in DeepFrames, tf \in Isometry : AddFact(src, dst, tf)
  \/ FlatBuild

SpecFlat == InitFlat /\ [][NextFlat]_vars

flat_built == last.op = "flat_try_from_iter"

(* every two frames the list names are joined by a path of its facts *)
joined(facts) ==
  \A a \in named(facts), b \in named(facts) :
    connected(a, b, {{facts[i].src, facts[i].dst} : i \in 1..Len(facts)})

(* the list has a fact between two different frames *)
has_edge(facts) == \E i \in 1..Len(facts) : facts[i].src # facts[i].dst

(* C30: in the flat TransformSet, try_from_iter of a consistent and       *)
(* connected fact list, with a fact between two different frames,         *)
(* succeeds, and in the set it returns get(a, b) * get(b, c) = get(a, c)  *)
(* and get(a, b) = get(b, a)^-1 for all frames a, b, c of the list, the   *)
(* pairs three places apart in the table included.                        *)
C30_FlatBuildAnswers ==
  (flat_built /\ has_edge(last.facts) /\ ~inconsistent(last.facts) /\ joined(last.facts)) =>
    /\ last.res = Ok
    /\ \A a \in named(last.facts), b \in named(last.facts), c \in named(last.facts) :
         /\ IsTransform(flat_get(last.lookup, a, b))
         /\ IsTransform(flat_get(last.lookup, b, c))
         /\ Mul(flat_get(last.lookup, a, b), flat_get(last.lookup, b, c))
              = flat_get(last.lookup, a, c)
         /\ flat_get(last.lookup, a, b) = Inv(flat_get(last.lookup, b, a))

====
